---- MODULE Spec2Model ----
(***************************************************************************)
(* Model of the article page of hr20k/tech-blog,                           *)
(* src/pages/[category]/[path].tsx: getStaticProps, the ArticleContainer   *)
(* and Article components, and the renderNode table that Article hands to  *)
(* documentToReactComponents.                                              *)
(*                                                                         *)
(* Strings are TLC strings (Len, SubSeq and \o work on them, a character   *)
(* is a string of length 1).  JavaScript objects are records, a property   *)
(* that is absent is a field that is absent.  The value undefined is       *)
(* Undefined where a string is expected and UndefinedObj where an object   *)
(* is expected.                                                            *)
(***************************************************************************)
EXTENDS Integers, Sequences, FiniteSets, TLC

VARIABLES
    pc,               \* position in getStaticProps / ArticleContainer / Article
    params,           \* getStaticProps' {params}
    categoryEntries,  \* result of the category query (items)
    entry,            \* result of the article query (items)
    result,           \* what getStaticProps returned: "none", "props", "notFound"
    props,            \* the props of ArticleContainer when result = "props"
    categories,       \* Article's categories prop (categoryLinks)
    contents,         \* Article's contents prop: Null or the Document's top-level nodes
    inputs0,          \* history: contents and categories as handed to Article
    blk,              \* index of the top-level node being rendered
    kid,              \* number of children of that node already rendered
    children,         \* the rendered children of that node so far
    output,           \* the rendered top-level nodes of this render
    prevOutput,       \* history: the output of the previous render of Article
    renders,          \* number of renders of Article started
    calls             \* number of renderNode handler invocations

vars == <<pc, params, categoryEntries, entry, result, props, categories, contents,
          inputs0, blk, kid, children, output, prevOutput, renders, calls>>

(***************************************************************************)
(* Bounds                                                                  *)
(***************************************************************************)
\* longest child sequence of a block node
MaxChildren == 2
\* number of times React renders Article (useMediaQuery re-renders it)
MaxRenders == 2

(***************************************************************************)
(* JavaScript values                                                       *)
(***************************************************************************)
Undefined == "<undefined>"
UndefinedObj == [undefined |-> TRUE]
Null == [null |-> TRUE]
NoProps == [none |-> TRUE]

\* obj.f, undefined when obj has no property f
Get(obj, f) == IF f \in DOMAIN obj THEN obj[f] ELSE Undefined

\* `${v}`: the string conversion of a template literal
TemplateString(v) == IF v = Undefined THEN "undefined" ELSE v

\* the truthiness of a string or undefined
Truthy(v) == v # Undefined /\ v # ""

\* a || b on strings and undefined
LogicalOr(a, b) == IF a = Undefined \/ a = "" THEN b ELSE a

\* a ?? b
NullishCoalesce(a, b) == IF a = Undefined THEN b ELSE a

\* all sequences over S of length 0..n
RECURSIVE SeqsUpTo(_, _)
SeqsUpTo(S, n) ==
    IF n = 0 THEN {<<>>}
    ELSE LET shorter == SeqsUpTo(S, n - 1)
         IN shorter \cup {Append(s, x) : s \in {t \in shorter : Len(t) = n - 1}, x \in S}

(***************************************************************************)
(* The documented node shapes (@contentful/rich-text-types), as the        *)
(* content store delivers them                                             *)
(***************************************************************************)
HEADING_2 == "heading-2"
HEADING_3 == "heading-3"
HEADING_4 == "heading-4"
HEADING_5 == "heading-5"
HEADING_6 == "heading-6"
PARAGRAPH == "paragraph"
EMBEDDED_ASSET == "embedded-asset-block"
EMBEDDED_ENTRY == "embedded-entry-block"
INLINE_EMBEDDED_ENTRY == "embedded-entry-inline"
HYPERLINK == "hyperlink"
TEXT == "text"

Headings == {HEADING_2, HEADING_3, HEADING_4, HEADING_5, HEADING_6}

Mark(t) == [type |-> t]

TextNode(v, ms) == [nodeType |-> TEXT, value |-> v, marks |-> ms]

\* text runs that occur as children of headings and paragraphs
Texts ==
    { TextNode("Intro", <<>>),
      TextNode("code", <<Mark("code")>>),
      TextNode("", <<Mark("bold")>>) }

\* text runs that occur as the label of a hyperlink
Labels == { <<>>, <<TextNode("", <<>>)>>, <<TextNode("Watch", <<>>)>> }

VideoUri == "https://youtu.be/abc123"
GenericUri == "https://example.com/page"
LookalikeUri == "https://youtuxbe/abc123"

HyperlinkNode(d, c) == [nodeType |-> HYPERLINK, data |-> d, content |-> c]

Hyperlinks ==
    { HyperlinkNode([uri |-> GenericUri], c) : c \in Labels }
    \cup { HyperlinkNode([uri |-> VideoUri], <<TextNode("Watch", <<>>)>>),
           HyperlinkNode([uri |-> LookalikeUri], <<TextNode("Watch", <<>>)>>),
           HyperlinkNode([title |-> "no uri"], <<TextNode("Watch", <<>>)>>) }

CreatedAt == "2021-01-02T03:04:00.000Z"

\* the lightweight article an embedded entry refers to
EntryTarget(flds, catId) ==
    [fields |-> [f \in DOMAIN flds \cup {"category"} |->
                    IF f = "category" THEN [sys |-> [id |-> catId]] ELSE flds[f]],
     sys |-> [createdAt |-> CreatedAt]]

EntryTargets ==
    { EntryTarget([title |-> "T", slug |-> "foo"], "cat1"),
      EntryTarget([slug |-> "foo"], "missing") }

InlineEntries ==
    { [nodeType |-> INLINE_EMBEDDED_ENTRY, data |-> [target |-> t], content |-> <<>>] :
        t \in EntryTargets }

BlockEntries ==
    { [nodeType |-> EMBEDDED_ENTRY, data |-> [target |-> t], content |-> <<>>] :
        t \in EntryTargets }

AssetUrls == { "//images.ctfassets.net/a.png", "https://images.ctfassets.net/a.png" }

Assets ==
    { [nodeType |-> EMBEDDED_ASSET,
       data |-> [target |-> [fields |->
                    [title |-> "pic",
                     description |-> d,
                     file |-> [url |-> u,
                               details |-> [image |-> [width |-> w, height |-> 480]]]]]],
       content |-> <<>>] :
        u \in AssetUrls, d \in {"", "A photo"}, w \in {640, 800} }

Inlines == Texts \cup Hyperlinks \cup InlineEntries

Blocks ==
    { [nodeType |-> t, data |-> [none |-> TRUE], content |-> c] :
        t \in Headings \cup {PARAGRAPH}, c \in SeqsUpTo(Inlines, MaxChildren) }
    \cup Assets \cup BlockEntries

Document(blocks) == [nodeType |-> "document", content |-> blocks]

\* the blocks of the documents of two top-level nodes
PairBlocks ==
    { b \in Blocks :
        /\ b.nodeType \in Headings \cup {PARAGRAPH}
        /\ b.content \in { <<>>, <<TextNode("Intro", <<>>)>> }
                          \cup { <<e>> : e \in InlineEntries } }

Documents ==
    { Document(<<b>>) : b \in Blocks }
    \cup { Document(<<a, b>>) : a \in PairBlocks, b \in PairBlocks }

(***************************************************************************)
(* What the content store can answer to the two queries of getStaticProps  *)
(***************************************************************************)
CategoryEntry(id, slug, name) ==
    [sys |-> [id |-> id], fields |-> [slug |-> slug, name |-> name]]

CategoryQueryResults ==
    { <<>>,
      <<CategoryEntry("cat1", "tech", "Tech")>>,
      <<CategoryEntry("cat1", "tech", "Tech"), CategoryEntry("cat2", "life", "Life")>> }

ArticleEntry(c) ==
    [sys |-> [createdAt |-> CreatedAt],
     fields |-> [title |-> "Post", slug |-> "post", contents |-> c]]

ArticleQueryResults ==
    { <<>> } \cup { <<ArticleEntry(c)>> : c \in {Null} \cup Documents }

\* params is undefined, or has a path that is absent, empty or a slug
ParamsSet ==
    { UndefinedObj }
    \cup { [category |-> c] : c \in {"tech", "news"} }
    \cup { [category |-> c, path |-> p] : c \in {"tech", "news"}, p \in {"", "post"} }

(***************************************************************************)
(* Output nodes (React elements).  An attribute the element does not carry *)
(* is a field the record does not have.  Styling (sx) is left out.         *)
(***************************************************************************)
StringChild(s) == [kind |-> "string", value |-> s]

\* what a handler that returns its children argument returns
Unwrapped(ch) == [kind |-> "children", children |-> ch]

\* a handler that raised
Thrown(e) == [kind |-> "throw", error |-> e]

IsThrown(o) == o.kind = "throw"

(***************************************************************************)
(* Helpers of the handlers                                                 *)
(***************************************************************************)
\* what arr.shift() alone would do: the receiver loses its first element
ShiftInPlace(arr) ==
    [ret |-> IF Len(arr) = 0 THEN UndefinedObj ELSE Head(arr),
     arr |-> IF Len(arr) = 0 THEN arr ELSE Tail(arr)]

\* arr.shift() applied to the array itself instead of a slice of it
ShiftWithoutSlice(arr) ==
    [ret |-> IF Len(arr) = 0 THEN UndefinedObj ELSE Head(arr),
     arr |-> IF Len(arr) = 0 THEN arr ELSE Tail(arr)]

\* arr.slice(0, 1).shift(): shift() removes the first element of the copy
\* that slice made; ret is the value of the expression, arr the receiver
\* of slice after the call
SliceShift(arr) ==
    LET copy == SubSeq(arr, 1, IF Len(arr) < 1 THEN Len(arr) ELSE 1)
    IN [ret |-> ShiftInPlace(copy).ret, arr |-> arr]

\* createHash('md5').update(v).digest('hex'), for the text values of the model
md5(v) ==
    CASE v = "Intro" -> "1cad35d4b3b9f624f82dbf237daaf188"
      [] v = "" -> "d41d8cd98f00b204e9800998ecf8427e"
      [] v = "code" -> "c13367945d5d4c91047b3b50234aa7ab"
      [] v = "Watch" -> "f20658650d987d31063b593c05980397"

\* format(new Date(iso), 'yyyy年MM月dd日 HH:mm') in a process whose time zone is
\* UTC; the three literals of the pattern are written nen, gatsu and nichi
FormatDate(iso) ==
    SubSeq(iso, 1, 4) \o "nen" \o SubSeq(iso, 6, 7) \o "gatsu" \o SubSeq(iso, 9, 10)
        \o "nichi " \o SubSeq(iso, 12, 13) \o ":" \o SubSeq(iso, 15, 16)

\* the line terminators, which . does not match
LineTerminators == {"\n", "\r"}

\* uri matches /\/youtu.be\/(.+)$/ with the match starting at position i
YoutubeReAt(uri, i) ==
    /\ i + 10 <= Len(uri)
    /\ SubSeq(uri, i, i + 5) = "/youtu"
    /\ SubSeq(uri, i + 6, i + 6) \notin LineTerminators
    /\ SubSeq(uri, i + 7, i + 9) = "be/"
    /\ \A k \in (i + 10)..Len(uri) : SubSeq(uri, k, k) \notin LineTerminators

\* uri.match(/\/youtu.be\/(.+)$/): null, or <<the match, group 1>> of the
\* leftmost match
Match(uri) ==
    LET starts == {i \in 1..Len(uri) : YoutubeReAt(uri, i)}
    IN IF starts = {} THEN <<>>
       ELSE LET i == CHOOSE j \in starts : \A k \in starts : j <= k
            IN <<SubSeq(uri, i, Len(uri)), SubSeq(uri, i + 10, Len(uri))>>

\* Article's categoryMap keyed by the path instead of the id
categoryMapByPath(cats) ==
    [k \in {cats[i].path : i \in 1..Len(cats)} |->
        cats[CHOOSE i \in 1..Len(cats) :
                /\ cats[i].path = k
                /\ \A j \in 1..Len(cats) : cats[j].path = k => j <= i]]

\* categories.reduce((acc, value) => ({...acc, [value.id]: value}), {}):
\* the last category of an id wins
categoryMap(cats) ==
    [k \in {cats[i].id : i \in 1..Len(cats)} |->
        cats[CHOOSE i \in 1..Len(cats) :
                /\ cats[i].id = k
                /\ \A j \in 1..Len(cats) : cats[j].id = k => j <= i]]

\* categoryMap[id]?.path
CategorySlug(cats, id) ==
    IF id \in DOMAIN categoryMap(cats) THEN Get(categoryMap(cats)[id], "path") ELSE Undefined

(***************************************************************************)
(* The renderNode table.  A handler yields out, the value it returns or    *)
(* Thrown, and content, the child array of its node after the call.        *)
(***************************************************************************)
\* a heading handler that tests content.value for truthiness instead of
\* comparing its type with 'undefined'
HeadingHandlerTruthy(variant, node, ch) ==
    LET acc == SliceShift(node.content)
        content == acc.ret
    IN [out |->
            IF Get(content, "nodeType") = TEXT /\ Truthy(Get(content, "value"))
            THEN [kind |-> "element", tag |-> "Typography", id |-> md5(content.value),
                  variant |-> variant, children |-> ch]
            ELSE Unwrapped(ch),
        content |-> acc.arr]

\* the five heading handlers differ in the variant only
HeadingHandler(variant, node, ch) ==
    LET acc == SliceShift(node.content)
        content == acc.ret
    IN [out |->
            IF Get(content, "nodeType") = TEXT /\ Get(content, "value") # Undefined
            THEN [kind |-> "element", tag |-> "Typography", id |-> md5(content.value),
                  variant |-> variant, children |-> ch]
            ELSE Unwrapped(ch),
        content |-> acc.arr]

renderNode_HEADING_2(node, ch) == HeadingHandler("h2", node, ch)
renderNode_HEADING_3(node, ch) == HeadingHandler("h3", node, ch)
renderNode_HEADING_4(node, ch) == HeadingHandler("h4", node, ch)
renderNode_HEADING_5(node, ch) == HeadingHandler("h5", node, ch)
renderNode_HEADING_6(node, ch) == HeadingHandler("h6", node, ch)

\* content?.marks.find((x) => x.type === 'code'): the optional chain ends at
\* an undefined content only; marks of a node without marks is undefined and
\* .find on it raises a TypeError
MarksFind(content) ==
    IF content = UndefinedObj THEN "undefined"
    ELSE IF "marks" \notin DOMAIN content THEN "TypeError"
    ELSE IF \E i \in 1..Len(content.marks) : content.marks[i].type = "code" THEN "found"
    ELSE "undefined"

renderNode_PARAGRAPH(node, ch) ==
    LET acc == SliceShift(node.content)
        content == acc.ret
        found == MarksFind(content)
    IN [out |->
            IF found = "TypeError" THEN Thrown("TypeError")
            ELSE IF found = "found"
            THEN [kind |-> "element", tag |-> "div", children |->
                    <<[kind |-> "element", tag |-> "pre", children |->
                        <<[kind |-> "element", tag |-> "code", children |-> ch]>>]>>]
            ELSE IF Get(content, "nodeType") = TEXT
            THEN [kind |-> "element", tag |-> "Text", children |-> ch]
            ELSE [kind |-> "element", tag |-> "p", children |-> ch],
        content |-> acc.arr]

renderNode_EMBEDDED_ASSET(node) ==
    LET fields == node.data.target.fields
        image == [kind |-> "element", tag |-> "Image",
                  src |-> "https:" \o TemplateString(fields.file.url),
                  width |-> fields.file.details.image.width,
                  height |-> fields.file.details.image.height,
                  alt |-> Get(fields.file, "title"),
                  children |-> <<>>]
        caption == [kind |-> "element", tag |-> "Typography", variant |-> "caption",
                    children |-> <<StringChild(node.data.target.fields.description)>>]
    IN [out |-> [kind |-> "element", tag |-> "Box", children |->
                    IF fields.description # "" THEN <<image, caption>> ELSE <<image>>],
        content |-> node.content]

\* `${categorySlug}/${slug}` of both embedded-entry handlers
EntryHref(node, cats) ==
    LET categorySlug == CategorySlug(cats, node.data.target.fields.category.sys.id)
        slug == Get(node.data.target.fields, "slug")
    IN TemplateString(categorySlug) \o "/" \o TemplateString(slug)

renderNode_EMBEDDED_ENTRY(node, cats) ==
    LET title == NullishCoalesce(Get(node.data.target.fields, "title"), "")
        createdAt == node.data.target.sys.createdAt
    IN [out |-> [kind |-> "element", tag |-> "SmallArticleCard", title |-> title,
                 href |-> EntryHref(node, cats), date |-> FormatDate(createdAt),
                 children |-> <<>>],
        content |-> node.content]

renderNode_INLINE_EMBEDDED_ENTRY(node, cats) ==
    LET title == NullishCoalesce(Get(node.data.target.fields, "title"), "")
    IN [out |-> [kind |-> "element", tag |-> "a", href |-> EntryHref(node, cats),
                 children |-> <<StringChild(title)>>],
        content |-> node.content]

renderNode_HYPERLINK(node, ch) ==
    IF /\ node.nodeType = HYPERLINK
       /\ "uri" \in DOMAIN node.data
       /\ node.data.uri # Undefined
    THEN LET matched == Match(node.data.uri)
             acc == SliceShift(node.content)
             content == acc.ret
         IN IF matched # <<>> /\ Len(matched) >= 2
            THEN [out |-> [kind |-> "element", tag |-> "YouTubeEmbed", children |->
                            <<[kind |-> "element", tag |-> "YouTube",
                               videoId |-> matched[2], children |-> <<>>]>>],
                  content |-> node.content]
            ELSE [out |-> [kind |-> "element", tag |-> "a", href |-> node.data.uri,
                           target |-> "_blank", rel |-> "noreferrer noopener",
                           children |->
                             <<StringChild(NullishCoalesce(Get(content, "value"),
                                                           node.data.uri))>>],
                  content |-> acc.arr]
    ELSE [out |-> Unwrapped(ch), content |-> node.content]

\* documentToReactComponents on a text run: the value inside its marks
RenderText(node) == [kind |-> "text", value |-> node.value, marks |-> node.marks]

\* documentToReactComponents on the children of a hyperlink (text runs)
RenderLabel(content) == [i \in 1..Len(content) |-> RenderText(content[i])]

(***************************************************************************)
(* getStaticProps                                                          *)
(***************************************************************************)
\* params?.path
ParamsPath(ps) == IF ps = UndefinedObj THEN Undefined ELSE Get(ps, "path")

\* number of articles the store links to a category
LinkedArticles(id) == IF id = "cat1" THEN 3 ELSE 0

\* withLinksCountToCategory(categoryEntries)
withLinksCountToCategory(items) ==
    [i \in 1..Len(items) |-> [category |-> items[i], count |-> LinkedArticles(items[i].sys.id)]]

\* categoryEntries.items.find(({fields}) => fields.slug === params.category)
FindCategory(items, slug) ==
    LET hits == {i \in 1..Len(items) : items[i].fields.slug = slug}
    IN IF hits = {} THEN UndefinedObj
       ELSE items[CHOOSE i \in hits : \A j \in hits : i <= j]

\* a return condition that forgets the category
ItemFound(item, currentCategory) == item # UndefinedObj

\* typeof item !== 'undefined' && typeof currentCategory !== 'undefined'
Found(item, currentCategory) == item # UndefinedObj /\ currentCategory # UndefinedObj

Init ==
    /\ pc = "getStaticProps"
    /\ params \in ParamsSet
    /\ categoryEntries = <<>>
    /\ entry = <<>>
    /\ result = "none"
    /\ props = NoProps
    /\ categories = <<>>
    /\ contents = Null
    /\ inputs0 = [contents |-> Null, categories |-> <<>>]
    /\ blk = 0
    /\ kid = 0
    /\ children = <<>>
    /\ output = <<>>
    /\ prevOutput = <<>>
    /\ renders = 0
    /\ calls = 0

\* if (params?.path) is false: return {notFound: true}
NoPath ==
    /\ pc = "getStaticProps"
    /\ ~Truthy(ParamsPath(params))
    /\ result' = "notFound"
    /\ pc' = "notFound"
    /\ UNCHANGED <<params, categoryEntries, entry, props, categories, contents, inputs0,
                   blk, kid, children, output, prevOutput, renders, calls>>

\* await client.getEntries<CategoryModel>(...)
GetCategoryEntries ==
    /\ pc = "getStaticProps"
    /\ Truthy(ParamsPath(params))
    /\ \E items \in CategoryQueryResults : categoryEntries' = items
    /\ pc' = "getArticleEntries"
    /\ UNCHANGED <<params, entry, result, props, categories, contents, inputs0,
                   blk, kid, children, output, prevOutput, renders, calls>>

\* await withLinksCountToCategory(...), find, await client.getEntries<ArticleModel>(...)
GetArticleEntries ==
    /\ pc = "getArticleEntries"
    /\ \E items \in ArticleQueryResults : entry' = items
    /\ pc' = "return"
    /\ UNCHANGED <<params, categoryEntries, result, props, categories, contents, inputs0,
                   blk, kid, children, output, prevOutput, renders, calls>>

\* entry.items.shift() and the return of props
ReturnProps ==
    /\ pc = "return"
    /\ LET shifted == ShiftInPlace(entry)
           item == shifted.ret
           currentCategory == FindCategory(categoryEntries, params.category)
       IN /\ Found(item, currentCategory)
          /\ entry' = shifted.arr
          /\ props' = [path |-> "/" \o params.category \o "/" \o params.path,
                       category |-> currentCategory,
                       withLinksCountCategories |-> withLinksCountToCategory(categoryEntries),
                       article |-> item]
    /\ result' = "props"
    /\ pc' = "ArticleContainer"
    /\ UNCHANGED <<params, categoryEntries, categories, contents, inputs0,
                   blk, kid, children, output, prevOutput, renders, calls>>

\* entry.items.shift() and the return of {notFound: true}
ReturnNotFound ==
    /\ pc = "return"
    /\ LET shifted == ShiftInPlace(entry)
           item == shifted.ret
           currentCategory == FindCategory(categoryEntries, params.category)
       IN /\ ~Found(item, currentCategory)
          /\ entry' = shifted.arr
    /\ result' = "notFound"
    /\ pc' = "notFound"
    /\ UNCHANGED <<params, categoryEntries, props, categories, contents, inputs0,
                   blk, kid, children, output, prevOutput, renders, calls>>

(***************************************************************************)
(* ArticleContainer and Article                                            *)
(***************************************************************************)
\* withLinksCountCategories.map(({category, count}) => ({title, count, path, id}))
categoryLinks(withLinksCountCategories) ==
    [i \in 1..Len(withLinksCountCategories) |->
        [title |-> withLinksCountCategories[i].category.fields.name,
         count |-> withLinksCountCategories[i].count,
         path |-> "/" \o withLinksCountCategories[i].category.fields.slug,
         id |-> withLinksCountCategories[i].category.sys.id]]

\* ArticleContainer renders Article with the article's contents and the links
ArticleContainer ==
    /\ pc = "ArticleContainer"
    /\ categories' = categoryLinks(props.withLinksCountCategories)
    /\ contents' = props.article.fields.contents
    /\ inputs0' = [contents |-> contents', categories |-> categories']
    /\ pc' = "Article"
    /\ UNCHANGED <<params, categoryEntries, entry, result, props,
                   blk, kid, children, output, prevOutput, renders, calls>>

\* Article's body: contents !== null ? documentToReactComponents(...) : null
Article ==
    /\ pc = "Article"
    /\ renders' = renders + 1
    /\ output' = <<>>
    /\ children' = <<>>
    /\ kid' = 0
    /\ IF contents # Null /\ Len(contents.content) > 0
       THEN blk' = 1 /\ pc' = "renderNode"
       ELSE blk' = 0 /\ pc' = "rendered"
    /\ UNCHANGED <<params, categoryEntries, entry, result, props, categories, contents,
                   inputs0, prevOutput, calls>>

\* React renders Article again (useMediaQuery changed)
Rerender ==
    /\ pc = "rendered"
    /\ renders < MaxRenders
    /\ prevOutput' = output
    /\ pc' = "Article"
    /\ UNCHANGED <<params, categoryEntries, entry, result, props, categories, contents,
                   inputs0, blk, kid, children, output, renders, calls>>

(***************************************************************************)
(* documentToReactComponents: depth first, the children of a node before   *)
(* the node's handler                                                      *)
(***************************************************************************)
\* the top-level node being rendered
Node == contents.content[blk]

\* its next child
Child == Node.content[kid + 1]

AtChild(type) ==
    /\ pc = "renderNode"
    /\ kid < Len(Node.content)
    /\ Child.nodeType = type

AtBlock(type) ==
    /\ pc = "renderNode"
    /\ kid >= Len(Node.content)
    /\ Node.nodeType = type

\* a child's rendering joins the children handed to the parent's handler
ChildRendered(out) ==
    /\ children' = Append(children, out)
    /\ kid' = kid + 1
    /\ UNCHANGED <<params, categoryEntries, entry, result, props, categories, inputs0,
                   blk, pc, output, prevOutput, renders>>

\* a text run: no handler of the table is involved
TextRun ==
    /\ AtChild(TEXT)
    /\ ChildRendered(RenderText(Child))
    /\ UNCHANGED <<contents, calls>>

InlineHyperlink ==
    /\ AtChild(HYPERLINK)
    /\ LET r == renderNode_HYPERLINK(Child, RenderLabel(Child.content))
       IN /\ ChildRendered(r.out)
          /\ contents' = [contents EXCEPT !.content[blk].content[kid + 1].content = r.content]
    /\ calls' = calls + 1

InlineEmbeddedEntry ==
    /\ AtChild(INLINE_EMBEDDED_ENTRY)
    /\ LET r == renderNode_INLINE_EMBEDDED_ENTRY(Child, categories)
       IN /\ ChildRendered(r.out)
          /\ contents' = [contents EXCEPT !.content[blk].content[kid + 1].content = r.content]
    /\ calls' = calls + 1

\* a top-level node's handler returned or raised
BlockRendered(r) ==
    /\ contents' = [contents EXCEPT !.content[blk].content = r.content]
    /\ calls' = calls + 1
    /\ IF IsThrown(r.out)
       THEN /\ pc' = "threw"
            /\ UNCHANGED <<output, children, kid, blk>>
       ELSE /\ output' = Append(output, r.out)
            /\ children' = <<>>
            /\ kid' = 0
            /\ IF blk < Len(contents.content)
               THEN blk' = blk + 1 /\ pc' = "renderNode"
               ELSE blk' = blk /\ pc' = "rendered"
    /\ UNCHANGED <<params, categoryEntries, entry, result, props, categories, inputs0,
                   prevOutput, renders>>

Heading2 == AtBlock(HEADING_2) /\ BlockRendered(renderNode_HEADING_2(Node, children))

Heading3 == AtBlock(HEADING_3) /\ BlockRendered(renderNode_HEADING_3(Node, children))

Heading4 == AtBlock(HEADING_4) /\ BlockRendered(renderNode_HEADING_4(Node, children))

Heading5 == AtBlock(HEADING_5) /\ BlockRendered(renderNode_HEADING_5(Node, children))

Heading6 == AtBlock(HEADING_6) /\ BlockRendered(renderNode_HEADING_6(Node, children))

Paragraph == AtBlock(PARAGRAPH) /\ BlockRendered(renderNode_PARAGRAPH(Node, children))

EmbeddedAsset == AtBlock(EMBEDDED_ASSET) /\ BlockRendered(renderNode_EMBEDDED_ASSET(Node))

EmbeddedEntry ==
    AtBlock(EMBEDDED_ENTRY) /\ BlockRendered(renderNode_EMBEDDED_ENTRY(Node, categories))

Next ==
    \/ NoPath
    \/ GetCategoryEntries
    \/ GetArticleEntries
    \/ ReturnProps
    \/ ReturnNotFound
    \/ ArticleContainer
    \/ Article
    \/ Rerender
    \/ TextRun
    \/ InlineHyperlink
    \/ InlineEmbeddedEntry
    \/ Heading2
    \/ Heading3
    \/ Heading4
    \/ Heading5
    \/ Heading6
    \/ Paragraph
    \/ EmbeddedAsset
    \/ EmbeddedEntry

Spec == Init /\ [][Next]_vars

(***************************************************************************)
(* Properties                                                              *)
(***************************************************************************)
\* the children of a node as documentToReactComponents hands them to its handler
RenderChildren(content, cats) ==
    [j \in 1..Len(content) |->
        CASE content[j].nodeType = TEXT -> RenderText(content[j])
          [] content[j].nodeType = HYPERLINK ->
                renderNode_HYPERLINK(content[j], RenderLabel(content[j].content)).out
          [] content[j].nodeType = INLINE_EMBEDDED_ENTRY ->
                renderNode_INLINE_EMBEDDED_ENTRY(content[j], cats).out]

\* the top-level nodes whose handler has returned
Returned == 1..Len(output)

\* the top-level nodes whose handler has been invoked
Invoked == Returned \cup (IF pc = "threw" THEN {blk} ELSE {})

\* what the handler of top-level node i produced
OutOf(i) == IF i \in Returned THEN output[i] ELSE Thrown("TypeError")

Block(i) == contents.content[i]

FirstIsText(node) == Len(node.content) > 0 /\ node.content[1].nodeType = TEXT

HasCodeMark(n) == \E k \in 1..Len(n.marks) : n.marks[k].type = "code"

VariantOf(type) ==
    CASE type = HEADING_2 -> "h2"
      [] type = HEADING_3 -> "h3"
      [] type = HEADING_4 -> "h4"
      [] type = HEADING_5 -> "h5"
      [] type = HEADING_6 -> "h6"

\* C1: rendering is total: no handler of the render table raises an error,
\* whatever documented node shape it is invoked on
C1_RenderingIsTotal ==
    /\ pc # "threw"
    /\ \A i \in Invoked : ~IsThrown(OutOf(i))

\* C2: a paragraph is classified by its first child into exactly one of code
\* block (first child carries the code mark), prose paragraph (first child is
\* a text run without the code mark) and generic container (first child is an
\* inline embedded entry or a hyperlink)
C2_ParagraphClassification ==
    \A i \in Invoked :
        (Block(i).nodeType = PARAGRAPH /\ Len(Block(i).content) > 0) =>
            LET first == Block(i).content[1]
                ch == RenderChildren(Block(i).content, categories)
                code == [kind |-> "element", tag |-> "div", children |->
                            <<[kind |-> "element", tag |-> "pre", children |->
                                <<[kind |-> "element", tag |-> "code", children |-> ch]>>]>>]
            IN OutOf(i) =
                 IF first.nodeType = TEXT /\ HasCodeMark(first) THEN code
                 ELSE IF first.nodeType = TEXT
                 THEN [kind |-> "element", tag |-> "Text", children |-> ch]
                 ELSE [kind |-> "element", tag |-> "p", children |-> ch]

\* C3: a heading of level L whose first child is a text run of value v renders
\* as the heading element of level L whose id is md5(v), around its rendered
\* children, wherever it stands; a repeated render gives the same output
C3_HeadingAnchor ==
    /\ \A i \in Invoked :
        (Block(i).nodeType \in Headings /\ FirstIsText(Block(i))) =>
            OutOf(i) = [kind |-> "element", tag |-> "Typography",
                        id |-> md5(Block(i).content[1].value),
                        variant |-> VariantOf(Block(i).nodeType),
                        children |-> RenderChildren(Block(i).content, categories)]
    /\ (pc = "rendered" /\ renders >= 2) => output = prevOutput

\* two headings of different levels with the same leading text have been
\* rendered a second time, with one and the same id
C3_Witness ==
    /\ pc = "rendered"
    /\ renders = 2
    /\ Len(output) = 2
    /\ Block(1).nodeType = HEADING_2
    /\ Block(2).nodeType = HEADING_3
    /\ FirstIsText(Block(1))
    /\ FirstIsText(Block(2))
    /\ output[1].id = output[2].id
    /\ output[1].variant = "h2"
    /\ output[2].variant = "h3"

\* C4: a heading whose first child is not a text run, or that has no child,
\* renders as the heading element of its level, without id, around its
\* rendered children
C4_HeadingWithoutAnchor ==
    \A i \in Invoked :
        (Block(i).nodeType \in Headings /\ ~FirstIsText(Block(i))) =>
            OutOf(i) = [kind |-> "element", tag |-> "Typography",
                        variant |-> VariantOf(Block(i).nodeType),
                        children |-> RenderChildren(Block(i).content, categories)]

\* child j of the top-level node being rendered, once rendered
Kid(j) == Block(blk).content[j]

RenderedKids == 1..Len(children)

\* the href the claim C5 describes: the path the categories hold for the
\* entry's category id, or undefined, then "/" and the slug
ExpectedHref(target, cats) ==
    LET hits == {i \in 1..Len(cats) : cats[i].id = target.fields.category.sys.id}
    IN IF hits = {} THEN "undefined/" \o target.fields.slug
       ELSE cats[CHOOSE i \in hits : \A k \in hits : k <= i].path \o "/" \o target.fields.slug

ExpectedTitle(target) == IF "title" \in DOMAIN target.fields THEN target.fields.title ELSE ""

\* C5: an embedded entry, block or inline, gets the href <path of its category
\* in the mapping>/<slug>, or undefined/<slug> when the mapping lacks the
\* category, without an error; an absent title becomes the empty string
C5_EntryHref ==
    /\ \A i \in Invoked :
        Block(i).nodeType = EMBEDDED_ENTRY =>
            /\ ~IsThrown(OutOf(i))
            /\ Get(OutOf(i), "href") = ExpectedHref(Block(i).data.target, categories)
            /\ Get(OutOf(i), "title") = ExpectedTitle(Block(i).data.target)
    /\ \A j \in RenderedKids :
        Kid(j).nodeType = INLINE_EMBEDDED_ENTRY =>
            /\ Get(children[j], "href") = ExpectedHref(Kid(j).data.target, categories)
            /\ children[j].children = <<StringChild(ExpectedTitle(Kid(j).data.target))>>

\* an entry of category cat1 was linked to /tech/foo and, in the same
\* paragraph, an entry of a category the mapping lacks to undefined/foo
C5_Witness ==
    /\ pc = "renderNode"
    /\ Len(children) = 2
    /\ Kid(1).nodeType = INLINE_EMBEDDED_ENTRY
    /\ Kid(2).nodeType = INLINE_EMBEDDED_ENTRY
    /\ Kid(1).data.target.fields.category.sys.id = "cat1"
    /\ Kid(2).data.target.fields.category.sys.id = "missing"
    /\ children[1].href = "/tech/foo"
    /\ children[2].href = "undefined/foo"
    /\ children[2].children = <<StringChild("")>>

\* uri ends with youtu.be, a "/" and a non-empty identifier segment
ShortLinkAt(uri, i) ==
    /\ i + 9 <= Len(uri)
    /\ SubSeq(uri, i, i + 8) = "youtu.be/"
    /\ \A k \in (i + 9)..Len(uri) : SubSeq(uri, k, k) # "/"

\* C6: a hyperlink is a video exactly when its uri is a short link on
\* youtu.be, and then the videoId is the identifier segment; every other uri
\* is generic
C6_LinkClassification ==
    \A j \in RenderedKids :
        (Kid(j).nodeType = HYPERLINK /\ "uri" \in DOMAIN Kid(j).data) =>
            LET uri == Kid(j).data.uri
                at == {i \in 1..Len(uri) : ShortLinkAt(uri, i)}
            IN /\ children[j].tag \in {"YouTubeEmbed", "a"}
               /\ children[j].tag = "YouTubeEmbed" <=> at # {}
               /\ children[j].tag = "YouTubeEmbed" =>
                    \E i \in at : children[j].children[1].videoId = SubSeq(uri, i + 9, Len(uri))

\* C7: a generic hyperlink renders as an external link to the uri, labelled
\* with the value of its first text child, or with the uri when it has no
\* text child; a hyperlink without a string uri renders its children unwrapped
C7_GenericLink ==
    \A j \in RenderedKids :
        Kid(j).nodeType = HYPERLINK =>
            IF "uri" \notin DOMAIN Kid(j).data
            THEN children[j] = Unwrapped(RenderLabel(Kid(j).content))
            ELSE Match(Kid(j).data.uri) = <<>> =>
                    children[j] =
                        [kind |-> "element", tag |-> "a", href |-> Kid(j).data.uri,
                         target |-> "_blank", rel |-> "noreferrer noopener",
                         children |->
                            <<StringChild(IF Len(Kid(j).content) = 0 THEN Kid(j).data.uri
                                          ELSE Kid(j).content[1].value)>>]

\* one paragraph holds a generic link without a text child, labelled with its
\* uri, and a generic link whose text child is the empty string, labelled ""
C7_Witness ==
    /\ Len(children) = 2
    /\ Kid(1).nodeType = HYPERLINK
    /\ Kid(2).nodeType = HYPERLINK
    /\ Kid(1).content = <<>>
    /\ Kid(2).content = <<TextNode("", <<>>)>>
    /\ children[1].tag = "a"
    /\ children[1].children = <<StringChild(GenericUri)>>
    /\ children[2].tag = "a"
    /\ children[2].children = <<StringChild("")>>

\* getStaticProps has returned
Settled == pc \notin {"getStaticProps", "getArticleEntries", "return"}

\* C8: getStaticProps returns props only when the path parameter is present,
\* the article query returned an item and the requested category is among
\* the fetched ones, and notFound otherwise; the render table is invoked only
\* after props, and only when the article's contents are not null
C8_AbsenceNeverRendered ==
    /\ result = "props" =>
        /\ Truthy(ParamsPath(params))
        /\ props.article # UndefinedObj
        /\ \E i \in 1..Len(categoryEntries) :
              /\ categoryEntries[i].fields.slug = params.category
              /\ props.category = categoryEntries[i]
    /\ Settled => result \in {"props", "notFound"}
    /\ result = "props" <=> props # NoProps
    /\ result # "props" => (renders = 0 /\ calls = 0 /\ pc \in {"getStaticProps",
                                "getArticleEntries", "return", "notFound"})
    /\ calls > 0 => contents # Null
    /\ contents = Null => output = <<>>

\* the article query returned an item and the category query returned
\* categories, none of them the requested one: notFound, nothing rendered
C8_Witness ==
    /\ pc = "notFound"
    /\ result = "notFound"
    /\ Truthy(ParamsPath(params))
    /\ Len(categoryEntries) > 0
    /\ FindCategory(categoryEntries, params.category) = UndefinedObj
    /\ calls = 0

\* C9: a render leaves the document (every node's children and data) and the
\* categories as they were handed to Article
C9_InputsUnchanged ==
    pc \in {"Article", "renderNode", "rendered", "threw"} =>
        /\ contents = inputs0.contents
        /\ categories = inputs0.categories
        /\ categories = categoryLinks(props.withLinksCountCategories)
        /\ contents = props.article.fields.contents

\* a heading with two children, a hyperlink among them, was rendered twice
C9_Witness ==
    /\ pc = "rendered"
    /\ renders = 2
    /\ calls >= 4
    /\ Block(1).nodeType \in Headings
    /\ Len(Block(1).content) = 2
    /\ Block(1).content[1].nodeType = TEXT
    /\ Block(1).content[2].nodeType = HYPERLINK
    /\ "id" \in DOMAIN output[1]

StartsWith(str, prefix) == Len(str) >= Len(prefix) /\ SubSeq(str, 1, Len(prefix)) = prefix

\* C10: the image source of an embedded asset is https: and the file url when
\* the url is scheme-relative, and the url itself when it carries a scheme;
\* width and height are the asset's
C10_AssetSource ==
    \A i \in Invoked :
        Block(i).nodeType = EMBEDDED_ASSET =>
            LET file == Block(i).data.target.fields.file
                image == OutOf(i).children[1]
            IN /\ image.src = IF StartsWith(file.url, "//") THEN "https:" \o file.url
                              ELSE file.url
               /\ image.width = file.details.image.width
               /\ image.height = file.details.image.height

====
